---- MODULE Spec2Model ----
(***************************************************************************)
(* A model of the session supervisor of mcp-cli-ent:                       *)
(*   - the daemon's session registry      (internal/daemon, Daemon)        *)
(*   - the CLI-side session manager, its persistent sessions and the      *)
(*     on-disk session store              (internal/session)               *)
(*   - the stdio JSON-RPC transport       (internal/client/stdio.go)       *)
(*   - the start of the daemon on its control endpoint                     *)
(*                                        (internal/daemon, DaemonManager) *)
(* Each subsystem has its own next-state relation and specification; the   *)
(* variables of the other subsystems stay at their initial values.  The    *)
(* daemon has five: tool calls racing with the registry (SpecDaemon), the  *)
(* control channel and its replies (SpecControl), the supervisor loop      *)
(* over time (SpecSupervisor), the tool requests with their arguments and  *)
(* the tool cache (SpecTools), and the bring-up goroutines under weak      *)
(* fairness (SpecBringUp).  The session manager has two: one CLI process   *)
(* at work (SpecManager), and runs of the CLI under a changing             *)
(* configuration with a hybrid server (SpecRecovery).  One persistent      *)
(* session with concurrent callers is SpecHealth; DetectSessionType over   *)
(* a set of server configurations is SpecDetect.                           *)
(***************************************************************************)
EXTENDS Integers, Sequences, FiniteSets, Bags, TLC

(***************************************************************************)
(* Bounds of the model.                                                    *)
(***************************************************************************)
MaxBg == 2           \* startSessionBackground goroutines at the same time
MaxClient == 2       \* MCP clients (child processes) alive at the same time
NumHandlers == 1     \* control handlers running Daemon.CallTool
MaxTime == 2         \* last value of the wall clock
MaxIdleTime == 0     \* DaemonConfig.MaxIdleTime, in clock ticks
MaxPending == 2      \* file-store goroutines spawned and not yet run
MaxPid == 2          \* process ids in use
MaxReq == 3          \* requests one stdio client sends
MaxSupervisorTime == 3   \* last value of the wall clock under the supervisor
SessionTimeout == 1  \* session.timeout in the configuration of server "b"
NumCallers == 2      \* goroutines calling one stdio client
NumStarters == 3     \* processes running `daemon start`
NumCheckers == 2     \* goroutines calling HealthCheck on one session

Names == {"a", "b"}       \* the servers the daemon is asked about
ManagerNames == {"a", "b"}  \* the servers the CLI process is asked about
BrowserNames == {"a"}       \* those of them that run a browser
Commands == {"npx", "node"} \* the commands a server is configured with
Nil == 0
DefaultMaxIdleTime == 3600   \* DefaultDaemonConfig().MaxIdleTime, in seconds

ClientSlots == 1..MaxClient
Handlers == 1..NumHandlers
Pids == 1..MaxPid
Callers == 1..NumCallers

VARIABLES
    \* ---- daemon (Daemon struct and its goroutines) ----
    dSessions,    \* d.sessions: the session records the map holds
    dClients,     \* the MCP clients created by clientFactory
    bg,           \* bag of the running startSessionBackground goroutines
    handlers,     \* the control handlers running Daemon.CallTool
    clock,        \* time.Now()
    hist,         \* per name: the control requests completed so far
    dReply,       \* what the control handler that ran last replied
    dConfig,      \* d.config: the DaemonConfig the daemon was created with
    \* ---- CLI process (session.Manager, PersistentSession, FileStore) ----
    mSessions,    \* m.sessions: the sessions the manager's map holds
    mDisk,        \* the sessions directory: file name -> SessionInfo
    mPending,     \* goroutines spawned for the file store, not yet run
    mOpen,        \* the MCP clients of this process that are open
    mPid,         \* os.Getpid() of the CLI process
    mAlive,       \* the process ids IsProcessAlive reports alive
    mCall,        \* the last SessionAwareClient.CallTool invocation
    mHist,        \* per name: what the manager last did with the session
    mConfig,      \* the command of the servers in the configuration loaded
    \* ---- stdio transport (StdioClient and the child process) ----
    sMutex,       \* c.mutex: the caller that holds it, or Nil
    sClosed,      \* c.closed
    sCallers,     \* the goroutines calling sendRequest
    sWire,        \* requests written to the child's stdin, not yet answered
    sOut,         \* lines the child wrote to stdout, not yet read
    sReaders,     \* goroutines blocked in c.reader.ReadBytes
    sNextReq,     \* number of the next request, to tell requests apart
    sTimedOut,    \* the requests whose caller gave up on ctx.Done()
    sSent,        \* the JSON-RPC ids of the requests written, in order
    \* ---- daemon start (DaemonManager and the control endpoint) ----
    eKind,        \* what the platform's endpoint is: "tcp" or "unix"
    ePidFile,     \* daemon.pid: the pid it holds, or Nil when there is none
    ePath,        \* the socket file: the daemon whose socket it names, or Nil
    eProcs,       \* the processes running `daemon start --foreground`
    eLoop,        \* per process: where its cleanupRoutine goroutine is
    eTick,        \* per process: ticker.C holds a tick not yet received
    \* ---- session-type detection (internal/session/detection.go) ----
    kCfg,         \* the config.ServerConfig handed to DetectSessionType
    kKind,        \* the SessionType it returned, "" before the call
    \* ---- what the CLI command got back from the client factory ----
    mCreate,      \* the CreateClient call that returned last and its error
    \* ---- one PersistentSession and the goroutines that call its methods ----
    hSession,     \* the fields of the PersistentSession
    hOpen,        \* the MCP clients made for it that are open
    hCheck        \* the goroutines that call HealthCheck: where each is

dVars == <<dSessions, dClients, bg, handlers, hist, dReply, dConfig>>
mVars == <<mSessions, mDisk, mPending, mOpen, mPid, mAlive, mCall, mHist,
           mConfig>>
sVars == <<sMutex, sClosed, sCallers, sWire, sOut, sReaders, sNextReq, sTimedOut,
           sSent>>
eVars == <<eKind, ePidFile, ePath, eProcs, eLoop, eTick>>
kVars == <<kCfg, kKind, mCreate>>
hVars == <<hSession, hOpen, hCheck>>
vars == <<dVars, mVars, sVars, eVars, kVars, hVars, clock>>

(***************************************************************************)
(* The daemon's registry: a Go map from server name to record pointer.     *)
(***************************************************************************)
\* the records the map holds under key n
Lookup(sessions, n) == {r \in sessions : r.ServerName = n}

\* d.sessions[n] = rec with a container that keeps the old entry of the key
MapPutKeepOld(sessions, rec) == sessions \cup {rec}

\* d.sessions[n] = rec : a map assignment replaces the entry of key n
MapPut(sessions, rec) ==
    (sessions \ Lookup(sessions, rec.ServerName)) \cup {rec}

\* delete(d.sessions, n)
MapDelete(sessions, n) == sessions \ Lookup(sessions, n)

\* &PersistentSession{...} in StartSession
NewPersistentSession(n, now) ==
    [ServerName |-> n, Status |-> "starting", StartTime |-> now,
     LastUsed |-> now, Client |-> Nil, Error |-> "", PID |-> 0,
     ToolCache |-> FALSE]

\* listed: Daemon.ListTools has returned a tool list fetched on this client
FreeClient == [state |-> "free", busy |-> FALSE, listed |-> FALSE]
NewClient == [state |-> "open", busy |-> FALSE, listed |-> FALSE]
\* args: the keys of the arguments of a tool call; late: the request began
\* after the tool list of its session had been fetched
IdleHandler == [pc |-> "idle", name |-> "", attached |-> FALSE,
                client |-> Nil, out |-> "none", args |-> {}, late |-> FALSE]

\* StdioClient.Close takes the client mutex: it waits for a round trip
ClientClosable(cs, c) == IF c = Nil THEN TRUE ELSE ~cs[c].busy

\* StdioClient.Close on every client of the set: closed = true, child killed
CloseClients(cs, S) ==
    [c \in ClientSlots |-> IF c \in S THEN [cs[c] EXCEPT !.state = "closed"]
                           ELSE cs[c]]

ClientsOf(S) == {r.Client : r \in S} \ {Nil}

(***************************************************************************)
(* Pointers.  A handler keeps the *PersistentSession that GetSession gave  *)
(* it.  While the map holds that record the handler sees every write to    *)
(* it; once the record has left the map nothing writes to it any more, so  *)
(* the handler keeps the value of the Client field the record left with.   *)
(* A closed client that nothing references is garbage; a client that was   *)
(* never closed keeps its child process.                                   *)
(***************************************************************************)
Detach(hs, gone) ==
    [h \in Handlers |->
        IF hs[h].pc \in {"deref", "list_fetch", "list_store"} /\ hs[h].attached
              /\ \E r \in gone : r.ServerName = hs[h].name
        THEN [hs[h] EXCEPT !.attached = FALSE,
                 !.client = (CHOOSE r \in gone : r.ServerName = hs[h].name).Client]
        ELSE hs[h]]

HeldClients(sessions, bgs, hs) ==
    {r.Client : r \in sessions} \cup {t.client : t \in BagToSet(bgs)}
        \cup {hs[h].client : h \in Handlers}

Collect(cs, sessions, bgs, hs) ==
    [c \in ClientSlots |->
        IF c \in HeldClients(sessions, bgs, hs) \/ cs[c].state = "open"
        THEN cs[c] ELSE FreeClient]

FreeClientSlots == {c \in ClientSlots : dClients[c].state = "free"}
Lowest(S) == CHOOSE x \in S : \A y \in S : x <= y

BagRemove(B, t) == B (-) SetToBag({t})
BagAdd(B, t) == B (+) SetToBag({t})

\* the statuses of the records the map holds under key n
StatusOf(sessions, n) == {r.Status : r \in Lookup(sessions, n)}

\* no control request has been answered yet
NoReply == [op |-> "none", name |-> "", was |-> {}, err |-> "", spawned |-> 0,
            held |-> {}, underLock |-> {}, at |-> 0, active |-> {},
            unhealthy |-> {}]

InitDaemon ==
    /\ dSessions = {}
    /\ dClients = [c \in ClientSlots |-> FreeClient]
    /\ bg = EmptyBag
    /\ handlers = [h \in Handlers |-> IdleHandler]
    /\ clock = 1
    /\ hist = [n \in Names |-> "none"]
    /\ dReply = NoReply

(***************************************************************************)
(* Daemon.StartSession                                                     *)
(***************************************************************************)
\* the error StartSession returns for name n, "" when it returns nil
\* (a change of this code: the check of the Starting status is left out)
StartSessionErrNoStartingCheck(sessions, n) ==
    IF "active" \in StatusOf(sessions, n) THEN "already active" ELSE ""

StartSessionErr(sessions, n) ==
    IF "active" \in StatusOf(sessions, n) THEN "already active"
    ELSE IF "starting" \in StatusOf(sessions, n) THEN "is already starting"
    ELSE ""

StartSession(n) ==
    LET ex == Lookup(dSessions, n)
    IN  IF StartSessionErr(dSessions, n) # ""
        THEN UNCHANGED <<dSessions, dClients, bg, handlers, hist, clock,
                         dConfig, mVars, sVars, eVars, kVars, hVars>>
        ELSE /\ BagCardinality(bg) < MaxBg
             /\ dSessions' = MapPut(dSessions, NewPersistentSession(n, clock))
             /\ bg' = BagAdd(bg, [pc |-> "connect", name |-> n, client |-> Nil])
             /\ handlers' = Detach(handlers, ex)
             /\ dClients' = Collect(dClients, dSessions', bg', handlers')
             /\ hist' = [hist EXCEPT ![n] = IF ex = {} THEN "started"
                                            ELSE "restarted"]
             /\ UNCHANGED <<clock, dConfig, mVars, sVars, eVars, kVars, hVars>>

(***************************************************************************)
(* Daemon.setSessionError                                                  *)
(***************************************************************************)
\* (a change of this code: the failure is logged and not stored)
SetSessionErrorDropped(sessions, n, msg) == sessions

SetSessionError(sessions, n, msg) ==
    {IF r.ServerName = n THEN [r EXCEPT !.Status = "error", !.Error = msg]
     ELSE r : r \in sessions}

(***************************************************************************)
(* Daemon.startSessionBackground                                           *)
(***************************************************************************)
\* client, err := d.clientFactory(session.Config), then the bring-up probe
\* _, err = client.ListTools(ctx).  Both touch nothing shared; a failure of
\* the first ends in setSessionError, a failure of the second in
\* client.Close() and setSessionError.
BgConnect(t) ==
    /\ t.pc = "connect"
    /\ \/ /\ FreeClientSlots # {}
          /\ LET c == Lowest(FreeClientSlots)
             IN  /\ dClients' = [dClients EXCEPT ![c] = NewClient]
                 /\ bg' = BagAdd(BagRemove(bg, t),
                                 [t EXCEPT !.pc = "publish", !.client = c])
          /\ UNCHANGED dSessions
       \/ /\ \E msg \in {"failed to create client", "health check failed"} :
                dSessions' = SetSessionError(dSessions, t.name, msg)
          /\ bg' = BagRemove(bg, t)
          /\ UNCHANGED dClients
    /\ UNCHANGED <<handlers, clock, hist, dReply, dConfig, mVars, sVars, eVars, kVars, hVars>>

\* under the lock: the record the name maps to now is made Active
PublishClient(sessions, n, c, now) ==
    {IF r.ServerName = n
     THEN [r EXCEPT !.Client = c, !.Status = "active", !.LastUsed = now,
                    !.Error = "", !.PID = 0]
     ELSE r : r \in sessions}

BgPublish(t) ==
    /\ t.pc = "publish"
    /\ dSessions' = PublishClient(dSessions, t.name, t.client, clock)
    /\ bg' = BagRemove(bg, t)
    /\ dClients' = Collect(dClients, dSessions', bg', handlers)
    /\ UNCHANGED <<handlers, clock, hist, dReply, dConfig, mVars, sVars, eVars, kVars, hVars>>

(***************************************************************************)
(* Daemon.StopSession                                                      *)
(***************************************************************************)
NoteStop(h, n) == IF h[n] \in {"started", "restarted"}
                  THEN [h EXCEPT ![n] = "started_stopped"]
                  ELSE h

\* the error StopSession returns for name n, "" when it returns nil
StopSessionErr(sessions, n) ==
    IF Lookup(sessions, n) = {} THEN "not found"
    ELSE IF StatusOf(sessions, n) # {"active"} THEN "is not active"
    ELSE ""

StopSession(n) ==
    LET ex == Lookup(dSessions, n)
    IN  /\ IF StopSessionErr(dSessions, n) # ""
           THEN UNCHANGED <<dSessions, dClients, bg, handlers>>
           ELSE /\ \A r \in ex : ClientClosable(dClients, r.Client)
                /\ dSessions' = MapDelete(dSessions, n)
                /\ handlers' = Detach(handlers,
                      {[r EXCEPT !.Status = "stopping", !.Client = Nil] : r \in ex})
                /\ dClients' = Collect(CloseClients(dClients, ClientsOf(ex)),
                                       dSessions', bg, handlers')
                /\ UNCHANGED bg
        /\ hist' = NoteStop(hist, n)
        /\ UNCHANGED <<clock, dConfig, mVars, sVars, eVars, kVars, hVars>>

(***************************************************************************)
(* Daemon.handleSessionsList, DELETE /sessions                             *)
(***************************************************************************)
\* (a change of this code: the sweep calls StopSession for every name, which
\* refuses a record that is not Active, and such a record is left behind)
DeleteAllActiveOnly ==
    LET act == {r \in dSessions : r.Status = "active"}
    IN  /\ dSessions # {}
        /\ \A r \in act : ClientClosable(dClients, r.Client)
        /\ dSessions' = dSessions \ act
        /\ handlers' = Detach(handlers, act)
        /\ dClients' = Collect(CloseClients(dClients, ClientsOf(act)),
                               dSessions', bg, handlers')
        /\ hist' = [n \in Names |-> "none"]
        /\ UNCHANGED <<bg, clock, dConfig, mVars, sVars, eVars, kVars, hVars>>

DeleteAll ==
    /\ dSessions # {}
    /\ \A r \in dSessions : ClientClosable(dClients, r.Client)
    /\ dSessions' = {}
    /\ handlers' = Detach(handlers, dSessions)
    /\ dClients' = Collect(CloseClients(dClients, ClientsOf(dSessions)),
                           dSessions', bg, handlers')
    /\ hist' = [n \in Names |-> "none"]
    /\ UNCHANGED <<bg, clock, dConfig, mVars, sVars, eVars, kVars, hVars>>

(***************************************************************************)
(* Daemon.GetSession and Daemon.CallTool                                   *)
(***************************************************************************)
\* the error GetSession returns for name n, "" when it returns the record
NotActive(status) == "not_active(status: " \o status \o ")"

GetSession(sessions, n) ==
    IF Lookup(sessions, n) = {} THEN "not_found"
    ELSE IF \E r \in Lookup(sessions, n) : r.Status # "active"
         THEN NotActive((CHOOSE r \in Lookup(sessions, n) : TRUE).Status)
    ELSE ""

Finish(hs, h, o) == [hs EXCEPT ![h] = [IdleHandler EXCEPT !.pc = "done",
                                          !.name = hs[h].name, !.out = o]]

\* session, err := d.GetSession(serverName), under the read lock
CallToolLookup(h, n) ==
    /\ handlers[h].pc = "idle"
    /\ LET err == GetSession(dSessions, n)
       IN  handlers' = IF err # ""
                       THEN Finish([handlers EXCEPT ![h].name = n], h, err)
                       ELSE [handlers EXCEPT ![h] = [IdleHandler EXCEPT
                                !.pc = "deref", !.name = n, !.attached = TRUE]]
    /\ UNCHANGED <<dSessions, dClients, bg, clock, hist, dReply, dConfig, mVars, sVars,
                   eVars, kVars, hVars>>

\* session.LastUsed = time.Now(); session.Client.CallTool(...): the write and
\* the read of the Client field happen with no lock held
CallToolDeref(h) ==
    /\ handlers[h].pc = "deref"
    /\ LET n == handlers[h].name
           att == handlers[h].attached
           c == IF att THEN (CHOOSE r \in Lookup(dSessions, n) : TRUE).Client
                ELSE handlers[h].client
       IN  /\ dSessions' = IF att
                           THEN {IF r.ServerName = n
                                 THEN [r EXCEPT !.LastUsed = clock] ELSE r :
                                 r \in dSessions}
                           ELSE dSessions
           /\ handlers' = IF c = Nil THEN Finish(handlers, h, "nil_dereference")
                          ELSE [handlers EXCEPT ![h].pc = "send",
                                   ![h].attached = FALSE, ![h].client = c]
    /\ dClients' = Collect(dClients, dSessions', bg, handlers')
    /\ UNCHANGED <<bg, clock, hist, dReply, dConfig, mVars, sVars, eVars, kVars, hVars>>

\* StdioClient.sendRequest: c.mutex.Lock(); if c.closed -> "client is closed"
CallToolSend(h) ==
    /\ handlers[h].pc = "send"
    /\ LET c == handlers[h].client
       IN  /\ ~dClients[c].busy
           /\ IF dClients[c].state = "closed"
              THEN /\ handlers' = Finish(handlers, h, "client_closed")
                   /\ dClients' = Collect(dClients, dSessions, bg, handlers')
              ELSE /\ handlers' = [handlers EXCEPT ![h].pc = "wait"]
                   /\ dClients' = [dClients EXCEPT ![c].busy = TRUE]
    /\ UNCHANGED <<dSessions, bg, clock, hist, dReply, dConfig, mVars, sVars, eVars, kVars, hVars>>

\* the round trip ends: a result, or an error wrapped in "tool call failed"
CallToolReturn(h) ==
    /\ handlers[h].pc = "wait"
    /\ \E o \in {"ok", "call_failed"} :
          /\ handlers' = Finish(handlers, h, o)
          /\ dClients' = Collect([dClients EXCEPT ![handlers[h].client].busy = FALSE],
                                 dSessions, bg, handlers')
    /\ UNCHANGED <<dSessions, bg, clock, hist, dReply, dConfig, mVars, sVars, eVars, kVars, hVars>>

(***************************************************************************)
(* Daemon.handleToolCall and Tool.ValidateArguments                        *)
(***************************************************************************)
\* the descriptor of the tool that is called, and the argument maps sent
ToolDescriptor ==
    [properties |-> {"q"}, required |-> {"q"}, additionalProperties |-> FALSE]
ArgKeys == {"q", "extra"}

\* Tool.ValidateArguments: the error it returns, "" for nil
ValidateArguments(t, args) ==
    IF t.required \ args # {} THEN "missing required argument"
    ELSE IF ~t.additionalProperties /\ args \ t.properties # {}
    THEN "unknown argument"
    ELSE ""

\* handleToolCall decodes the body and calls d.CallTool(serverName, toolName,
\* req.Args), which begins with GetSession; nothing calls ValidateArguments
handleToolCall(h, n, a) ==
    /\ handlers[h].pc = "idle"
    /\ LET err == GetSession(dSessions, n)
       IN  handlers' = IF err # ""
                       THEN Finish([handlers EXCEPT ![h].name = n], h, err)
                       ELSE [handlers EXCEPT ![h] = [IdleHandler EXCEPT
                                !.pc = "deref", !.name = n, !.attached = TRUE,
                                !.args = a]]
    /\ UNCHANGED <<dSessions, dClients, bg, clock, hist, dReply, dConfig,
                   mVars, sVars, eVars, kVars, hVars>>

(***************************************************************************)
(* Daemon.ListTools                                                        *)
(***************************************************************************)
\* session.ToolCache["list"] = tools; session.LastUsed = time.Now(), written
\* through the pointer: the map's record when the map still holds it
\* (a change of this code: the list is not put in the cache)
StoreToolCacheLastUsedOnly(sessions, n, now) ==
    {IF r.ServerName = n THEN [r EXCEPT !.LastUsed = now] ELSE r :
     r \in sessions}

StoreToolCache(sessions, n, now) ==
    {IF r.ServerName = n THEN [r EXCEPT !.ToolCache = TRUE, !.LastUsed = now]
     ELSE r : r \in sessions}

\* GetSession, then under the read lock the look in session.ToolCache["list"]
ListToolsLookup(h, n) ==
    /\ handlers[h].pc = "idle"
    /\ LET err == GetSession(dSessions, n)
           r == CHOOSE x \in Lookup(dSessions, n) : TRUE
       IN  handlers' =
             IF err # "" THEN Finish([handlers EXCEPT ![h].name = n], h, err)
             ELSE IF r.ToolCache
             THEN Finish([handlers EXCEPT ![h].name = n], h, "cached")
             ELSE [handlers EXCEPT ![h] = [IdleHandler EXCEPT
                      !.pc = "list_fetch", !.name = n, !.attached = TRUE,
                      !.client = r.Client, !.late = dClients[r.Client].listed]]
    /\ UNCHANGED <<dSessions, dClients, bg, clock, hist, dReply, dConfig,
                   mVars, sVars, eVars, kVars, hVars>>

\* session.Client.ListTools(ctx): the round trip of a tools/list request on
\* the transport, with no lock of the daemon held
ListToolsFetch(h) ==
    /\ handlers[h].pc = "list_fetch"
    /\ IF handlers[h].client = Nil
       THEN handlers' = Finish(handlers, h, "nil_dereference")
       ELSE /\ ~dClients[handlers[h].client].busy
            /\ \E ok \in BOOLEAN :
                  handlers' =
                    IF ok /\ dClients[handlers[h].client].state = "open"
                    THEN [handlers EXCEPT ![h].pc = "list_store"]
                    ELSE Finish(handlers, h, "list_failed")
    /\ dClients' = Collect(dClients, dSessions, bg, handlers')
    /\ UNCHANGED <<dSessions, bg, clock, hist, dReply, dConfig, mVars, sVars,
                   eVars, kVars, hVars>>

\* under the write lock the list is cached, and ListTools returns it
ListToolsStore(h) ==
    /\ handlers[h].pc = "list_store"
    /\ dSessions' = IF handlers[h].attached
                    THEN StoreToolCache(dSessions, handlers[h].name, clock)
                    ELSE dSessions
    /\ handlers' = Finish(handlers, h, "fetched")
    /\ dClients' = Collect([c \in ClientSlots |->
                              IF c = handlers[h].client
                              THEN [dClients[c] EXCEPT !.listed = TRUE]
                              ELSE dClients[c]],
                           dSessions', bg, handlers')
    /\ UNCHANGED <<bg, clock, hist, dReply, dConfig, mVars, sVars, eVars, kVars, hVars>>

\* the handler's reply has been written; it serves the next request
HandlerReset(h) ==
    /\ handlers[h].pc = "done"
    /\ handlers' = [handlers EXCEPT ![h] = IdleHandler]
    /\ UNCHANGED <<dSessions, dClients, bg, clock, hist, dReply, dConfig, mVars, sVars,
                   eVars, kVars, hVars>>

(***************************************************************************)
(* Daemon.cleanupIdleSessions, called by cleanupRoutine on every tick      *)
(***************************************************************************)
IdleRecs(sessions, now) ==
    {r \in sessions : r.Status = "active"
                         /\ now - r.LastUsed > dConfig.MaxIdleTime}

CleanupIdleSessions ==
    LET idle == IdleRecs(dSessions, clock)
    IN  /\ \A r \in idle : ClientClosable(dClients, r.Client)
        /\ dSessions' = dSessions \ idle
        /\ handlers' = Detach(handlers, idle)
        /\ dClients' = Collect(CloseClients(dClients, ClientsOf(idle)),
                               dSessions', bg, handlers')
        /\ UNCHANGED <<bg, clock, hist, dConfig, mVars, sVars, eVars, kVars, hVars>>

ClockTick ==
    /\ clock < MaxTime
    /\ clock' = clock + 1
    /\ UNCHANGED <<dVars, mVars, sVars, eVars, kVars, hVars>>

(***************************************************************************)
(* The CLI process: session.Manager, PersistentSession and FileStore.      *)
(* Server "a" is a browser server (a persistent session, started by        *)
(* GetSession); any other server is a plain stdio server (a hybrid         *)
(* session).                                                               *)
(***************************************************************************)
ServerConfig(n) ==
    [http |-> FALSE, browser |-> (n = "a"), sessionType |-> "", autoStart |-> FALSE,
     timeout |-> IF n = "b" THEN SessionTimeout ELSE 0]

DetectSessionType(cfg) ==
    IF cfg.http THEN "stateless"
    ELSE IF cfg.browser THEN "persistent"
    ELSE IF cfg.sessionType \in {"persistent", "stateless", "hybrid"}
         THEN cfg.sessionType
    ELSE "hybrid"

RequiresPersistentSession(cfg) == DetectSessionType(cfg) = "persistent"
SupportsPersistentSession(cfg) ==
    DetectSessionType(cfg) \in {"persistent", "hybrid"}
ShouldAutoStart(cfg) == cfg.autoStart \/ RequiresPersistentSession(cfg)

\* seconds
GetSessionTimeout(cfg) ==
    IF cfg.timeout > 0 THEN cfg.timeout
    ELSE IF DetectSessionType(cfg) = "persistent" THEN 300
    ELSE IF DetectSessionType(cfg) = "hybrid" THEN 180
    ELSE 60

(***************************************************************************)
(* DetectSessionType on a config.ServerConfig as the configuration file    *)
(* gives it: strings are Go strings, tested with strings.ToLower and       *)
(* strings.Contains.                                                       *)
(***************************************************************************)
UpperLetters == "ABCDEFGHIJKLMNOPQRSTUVWXYZ"
LowerLetters == "abcdefghijklmnopqrstuvwxyz"

\* strings.ToLower on one character
LowerOf(ch) ==
    IF \E i \in 1..Len(UpperLetters) : SubSeq(UpperLetters, i, i) = ch
    THEN LET i == CHOOSE j \in 1..Len(UpperLetters) :
                      SubSeq(UpperLetters, j, j) = ch
         IN  SubSeq(LowerLetters, i, i)
    ELSE ch

RECURSIVE ToLower(_)
ToLower(str) ==
    IF Len(str) = 0 THEN ""
    ELSE LowerOf(SubSeq(str, 1, 1)) \o ToLower(SubSeq(str, 2, Len(str)))

\* strings.Contains
Contains(str, substr) ==
    \E i \in 1..(Len(str) - Len(substr) + 1) :
        SubSeq(str, i, i + Len(substr) - 1) = substr

\* strings.Join(elems, " ")
RECURSIVE Join(_)
Join(elems) ==
    IF elems = <<>> THEN ""
    ELSE IF Len(elems) = 1 THEN elems[1]
    ELSE elems[1] \o " " \o Join(Tail(elems))

browserServers ==
    {"chrome-devtools", "playwright", "selenium", "puppeteer", "webdriver",
     "browser"}

\* the tests DetectSessionType makes on a ServerConfig, in the form of the
\* record DetectSessionType(cfg) above is given
DetectInput(serverConfig) ==
    [http |-> serverConfig.Type = "http" \/ serverConfig.URL # "",
     browser |-> \E indicator \in browserServers :
                    \/ Contains(ToLower(serverConfig.Command), indicator)
                    \/ Contains(ToLower(Join(serverConfig.Args)), indicator),
     sessionType |-> serverConfig.Session.Type,
     autoStart |-> serverConfig.Session.AutoStart,
     timeout |-> serverConfig.Session.Timeout]

\* the server configurations a configuration file is taken to hold
ServerConfigs ==
    [Type : {"", "http"},
     URL : {"", "https://mcp.example.com/mcp"},
     Command : {"", "npx", "Chrome-DevTools-mcp"},
     Args : {<<>>, <<"server.js">>, <<"-y", "@Playwright/mcp@latest">>},
     Session : [Type : {"", "persistent", "stateless", "hybrid", "sticky"},
                AutoStart : {FALSE},
                Timeout : {0}]]

\* a caller (Manager.GetSession, CreateClient) asks for the session type
DetectSession ==
    /\ kKind = ""
    /\ kKind' = DetectSessionType(DetectInput(kCfg))
    /\ UNCHANGED <<kCfg, mCreate, dVars, mVars, sVars, eVars, clock, hVars>>

\* another server of the configuration is looked at
DetectNext ==
    /\ kKind # ""
    /\ kKind' = ""
    /\ kCfg' \in ServerConfigs
    /\ UNCHANGED <<mCreate, dVars, mVars, sVars, eVars, clock, hVars>>

\* no server configuration has been looked at
NoDetect ==
    /\ kCfg = [Type |-> "", URL |-> "", Command |-> "", Args |-> <<>>,
               Session |-> [Type |-> "", AutoStart |-> FALSE, Timeout |-> 0]]
    /\ kKind = ""

GenerateSessionID(n) == n \o "-id"
sessionFilename(k) == k \o ".json"
FileNames ==
    {sessionFilename(k) :
        k \in ManagerNames \cup {GenerateSessionID(n) : n \in ManagerNames}}

NoFile == [SessionID |-> "", Name |-> "", Status |-> "nofile", PID |-> 0,
           StartTime |-> 0, LastActivity |-> 0, Error |-> "", Config |-> ""]

IsProcessAlive(alive, pid) == pid > 0 /\ pid \in alive

\* FileStore
SaveSession(disk, info) == [disk EXCEPT ![sessionFilename(info.Name)] = info]
LoadSession(disk, k) == disk[sessionFilename(k)]
DeleteSession(disk, k) == [disk EXCEPT ![sessionFilename(k)] = NoFile]
ListSessions(disk) == {disk[f] : f \in FileNames} \ {NoFile}

LoadSessionByName(disk, n) ==
    IF LoadSession(disk, n) # NoFile THEN LoadSession(disk, n)
    ELSE IF \E i \in ListSessions(disk) : i.Name = n
         THEN CHOOSE i \in ListSessions(disk) : i.Name = n
    ELSE NoFile

\* TRUE when ValidateSession returns no error
ValidateSession(info, alive) ==
    /\ info.Name # ""
    /\ info.SessionID # ""
    /\ (info.Status = "active" /\ info.PID > 0) => IsProcessAlive(alive, info.PID)

FindExistingSession(disk, n, alive) ==
    LET info == LoadSessionByName(disk, n)
    IN  IF info = NoFile THEN [info |-> NoFile, disk |-> disk]
        ELSE IF ~ValidateSession(info, alive)
             THEN [info |-> NoFile, disk |-> DeleteSession(disk, info.SessionID)]
        ELSE [info |-> info, disk |-> disk]

UpdateSessionActivity(disk, sid, now) ==
    IF LoadSession(disk, sid) = NoFile THEN disk
    ELSE SaveSession(disk, [LoadSession(disk, sid) EXCEPT !.LastActivity = now])

\* PersistentSession
buildSessionInfo(s) ==
    [SessionID |-> s.sessionID, Name |-> s.name, Status |-> s.status,
     PID |-> s.pid, StartTime |-> s.startTime, LastActivity |-> s.lastActivity,
     Error |-> s.error, Config |-> s.config]

NewPersistentSessionWithFileStore(n, cfg, now) ==
    [name |-> n, status |-> "inactive", client |-> Nil, startTime |-> 0,
     lastActivity |-> now, pid |-> 0, sessionID |-> GenerateSessionID(n),
     error |-> "", config |-> cfg]

LoadPersistentSession(info) ==
    [name |-> info.Name, status |-> info.Status, client |-> Nil,
     startTime |-> info.StartTime, lastActivity |-> info.LastActivity,
     pid |-> info.PID, sessionID |-> info.SessionID, error |-> info.Error,
     config |-> info.Config]

\* the goroutines saveToStoreAsyncWithInfo and UpdateActivity spawn
SaveTask(info) == [op |-> "save", sid |-> info.SessionID, info |-> info]
ActivityTask(sid) == [op |-> "activity", sid |-> sid, info |-> NoFile]

\* The goroutine of UpdateActivity loads <sessionID>.json, a file that
\* SaveSession never writes, and gives up: when it runs makes no difference,
\* and it is run at once.  The goroutines that save wait in mPending.
RECURSIVE RunActivity(_, _, _)
RunActivity(disk, tasks, now) ==
    IF \A t \in tasks : t.op # "activity" THEN disk
    ELSE LET t == CHOOSE x \in tasks : x.op = "activity"
         IN  RunActivity(UpdateSessionActivity(disk, t.sid, now), tasks \ {t}, now)

Spawn(pending, tasks) == pending \cup {t \in tasks : t.op = "save"}

\* the error of tryReattach, "" for none: only an HTTP session is reattached
tryReattach(s, alive) ==
    IF ~IsProcessAlive(alive, s.pid) THEN "process is no longer alive"
    ELSE IF ServerConfig(s.name).http THEN ""
    ELSE "reattachment to stdio sessions not yet supported"

createNewSession(s, ok, c, now, pid) ==
    IF ~ok
    THEN [s |-> [s EXCEPT !.status = "error", !.error = "failed to create client"],
          err |-> TRUE, tasks |-> {}, opened |-> {}]
    ELSE LET t == [s EXCEPT !.pid = pid, !.client = c, !.status = "active",
                            !.startTime = now, !.lastActivity = now, !.error = ""]
         IN  [s |-> t, err |-> FALSE, tasks |-> {SaveTask(buildSessionInfo(t))},
              opened |-> {c}]

Start(s, ok, c, now, pid, alive) ==
    IF s.status = "active"
    THEN [s |-> s, err |-> FALSE, tasks |-> {}, opened |-> {}]
    ELSE IF s.status = "starting"
    THEN [s |-> s, err |-> TRUE, tasks |-> {}, opened |-> {}]
    ELSE LET t == [s EXCEPT !.status = "starting", !.error = ""]
         IN  IF t.sessionID # "" /\ t.pid > 0 /\ tryReattach(t, alive) = ""
             THEN [s |-> t, err |-> FALSE, tasks |-> {}, opened |-> {}]
             ELSE createNewSession(t, ok, c, now, pid)

Stop(s) ==
    IF s.status \in {"inactive", "stopped"}
    THEN [s |-> s, tasks |-> {}, closed |-> {}]
    ELSE LET t == [s EXCEPT !.status = "stopped", !.client = Nil, !.pid = 0,
                            !.error = ""]
         IN  [s |-> t, tasks |-> {SaveTask(buildSessionInfo(t))},
              closed |-> {s.client} \ {Nil}]

HealthCheck(s, alive, listOk, now) ==
    IF s.status # "active" \/ s.client = Nil
    THEN [s |-> s, err |-> TRUE, tasks |-> {}]
    ELSE IF s.pid > 0 /\ ~IsProcessAlive(alive, s.pid)
    THEN LET t == [s EXCEPT !.status = "stopped", !.pid = 0,
                            !.error = "process terminated"]
         IN  [s |-> t, err |-> TRUE, tasks |-> {SaveTask(buildSessionInfo(t))}]
    ELSE IF ~listOk
    THEN [s |-> [s EXCEPT !.status = "error", !.error = "health check failed"],
          err |-> TRUE, tasks |-> {}]
    ELSE [s |-> [s EXCEPT !.lastActivity = now], err |-> FALSE,
          tasks |-> {ActivityTask(s.sessionID)}]

IsExpired(s, maxIdleTime, now) ==
    s.status = "active" /\ maxIdleTime > 0 /\ now - s.lastActivity > maxIdleTime

(***************************************************************************)
(* PersistentSession.HealthCheck step by step.  It tests the status under  *)
(* the read lock, releases the lock, calls client.ListTools, and takes the *)
(* write lock again to store a failure; Start and Stop hold the write lock *)
(* from beginning to end.  createNewSession records os.Getpid(), the pid   *)
(* of the process that runs the check.                                     *)
(***************************************************************************)
HealthCheckers == 1..NumCheckers

IdleCheck == [pc |-> "idle", client |-> Nil]

\* HealthCheck up to s.mutex.RUnlock(): it returns at once when the session
\* is not Active, has no client, or its process is gone
HealthCheckBegin(k) ==
    /\ hCheck[k].pc = "idle"
    /\ IF \/ hSession.status # "active"
          \/ hSession.client = Nil
          \/ (hSession.pid > 0 /\ ~IsProcessAlive(mAlive, hSession.pid))
       THEN /\ hSession' = HealthCheck(hSession, mAlive, TRUE, clock).s
            /\ UNCHANGED hCheck
       ELSE /\ hCheck' = [hCheck EXCEPT ![k] = [pc |-> "listing",
                                                client |-> hSession.client]]
            /\ UNCHANGED hSession
    /\ UNCHANGED <<hOpen, dVars, mVars, sVars, eVars, kVars, clock>>

\* what HealthCheck writes after client.ListTools has returned
HealthCheckStore(s, listOk, now) ==
    IF listOk THEN [s EXCEPT !.lastActivity = now]
    ELSE [s EXCEPT !.status = "error", !.error = "health check failed"]

\* client.ListTools(ctx) on the client read before the unlock, which fails
\* on a closed client, and the write of the outcome under the write lock
HealthCheckList(k) ==
    /\ hCheck[k].pc = "listing"
    /\ \E listOk \in BOOLEAN :
         /\ listOk => hCheck[k].client \in hOpen
         /\ hSession' = HealthCheckStore(hSession, listOk, clock)
    /\ hCheck' = [hCheck EXCEPT ![k] = IdleCheck]
    /\ UNCHANGED <<hOpen, dVars, mVars, sVars, eVars, kVars, clock>>

\* s.Start()
SessionStart ==
    /\ ClientSlots \ hOpen # {}
    /\ \E ok \in BOOLEAN :
         LET st == Start(hSession, ok, Lowest(ClientSlots \ hOpen), clock, mPid,
                         mAlive)
         IN  /\ hSession' = st.s
             /\ hOpen' = hOpen \cup st.opened
    /\ UNCHANGED <<hCheck, dVars, mVars, sVars, eVars, kVars, clock>>

\* s.Stop()
SessionStop ==
    /\ hSession' = Stop(hSession).s
    /\ hOpen' = hOpen \ Stop(hSession).closed
    /\ UNCHANGED <<hCheck, dVars, mVars, sVars, eVars, kVars, clock>>

\* NewPersistentSessionWithFileStore, and nobody calls HealthCheck yet
InitSession ==
    /\ hSession = NewPersistentSessionWithFileStore("a", "npx", 1)
    /\ hOpen = {}
    /\ hCheck = [k \in HealthCheckers |-> IdleCheck]

(***************************************************************************)
(* session.Manager                                                         *)
(***************************************************************************)
ManagerLookup(sessions, n) == {s \in sessions : s.name = n}
ManagerPut(sessions, s) == (sessions \ ManagerLookup(sessions, s.name)) \cup {s}
ManagerDelete(sessions, n) == sessions \ ManagerLookup(sessions, n)

\* the client handle a new MCP client gets: one that nothing refers to
FreeManagerClients(sessions, open) ==
    ClientSlots \ (open \cup {s.client : s \in sessions})

\* Manager.saveSession
saveSession(disk, s) ==
    [disk EXCEPT ![sessionFilename(s.name)] = buildSessionInfo(s)]

\* os.Remove(filepath.Join(m.sessionsDir, name+".json"))
RemoveSessionFile(disk, n) == [disk EXCEPT ![sessionFilename(n)] = NoFile]

\* a stdio server: the commands (and the arguments, left out) are equal
configMatches(existing, new) == existing = new

\* Manager.GetSession(n): ok1 and ok2 are the outcomes of the client factory
\* in the reattached session's Start and in the new session's Start
ManagerGetSession(n, ok1, ok2, c) ==
    LET ex == ManagerLookup(mSessions, n)
        found == FindExistingSession(mDisk, n, mAlive)
        re == Start(LoadPersistentSession(found.info), ok1, c, clock, mPid, mAlive)
        reattached == /\ SupportsPersistentSession(ServerConfig(n))
                      /\ found.info # NoFile
                      /\ configMatches(found.info.Config, mConfig)
                      /\ ~re.err
        fresh == NewPersistentSessionWithFileStore(n, mConfig, clock)
        st == IF ShouldAutoStart(ServerConfig(n))
              THEN Start(fresh, ok2, c, clock, mPid, mAlive)
              ELSE [s |-> fresh, err |-> FALSE, tasks |-> {}, opened |-> {}]
    IN  IF ex # {}
        THEN [sessions |-> {IF s.name = n THEN [s EXCEPT !.lastActivity = clock]
                            ELSE s : s \in mSessions},
              disk |-> mDisk, tasks |-> {ActivityTask(s.sessionID) : s \in ex},
              opened |-> {}, err |-> FALSE, inserted |-> FALSE]
        ELSE IF reattached
        THEN [sessions |-> ManagerPut(mSessions, re.s), disk |-> found.disk,
              tasks |-> re.tasks, opened |-> re.opened, err |-> FALSE,
              inserted |-> TRUE]
        ELSE IF st.err
        THEN [sessions |-> mSessions, disk |-> found.disk, tasks |-> {},
              opened |-> {}, err |-> TRUE, inserted |-> FALSE]
        ELSE [sessions |-> ManagerPut(mSessions, st.s),
              disk |-> saveSession(found.disk, st.s), tasks |-> st.tasks,
              opened |-> st.opened, err |-> FALSE, inserted |-> TRUE]

\* what mHist notes when GetSession puts a session in the map: "recovered"
\* when this process began with a metadata file of that name left on disk
\* by a process that had exited, "present" otherwise
Inserted(h) == IF h = "on_disk" THEN "recovered" ELSE "present"

\* TRUE when GetSession(n) finds, on disk and not in the map, a record that
\* ValidateSession accepts and configMatches refuses
ConfigMismatch(n) ==
    /\ ManagerLookup(mSessions, n) = {}
    /\ FindExistingSession(mDisk, n, mAlive).info # NoFile
    /\ ~configMatches(FindExistingSession(mDisk, n, mAlive).info.Config, mConfig)

\* no CreateClient call has returned
NoCreate == [name |-> "", err |-> "none"]

\* the error CreateClient returns, "" with a client: R is what GetSession
\* gave, sess the session it returned, st the outcome of sess.Start()
CreateClientErr(R, sess, st) ==
    IF R.err THEN "failed to get session"
    ELSE IF sess.client # Nil THEN ""
    ELSE IF st.err THEN "failed to start session"
    ELSE IF st.s.client = Nil THEN "session client is nil after starting"
    ELSE ""

\* SessionAwareClientFactory.CreateClient(n): GetSession, then Start when the
\* session has no client
CreateClient(n) ==
    /\ FreeManagerClients(mSessions, mOpen) # {}
    /\ \E ok1, ok2, ok3 \in BOOLEAN :
         LET c == Lowest(FreeManagerClients(mSessions, mOpen))
             R == ManagerGetSession(n, ok1, ok2, c)
             sess == CHOOSE s \in ManagerLookup(R.sessions, n) : TRUE
             st == Start(sess, ok3, c, clock, mPid, mAlive)
         IN  /\ IF R.err \/ sess.client # Nil
                THEN /\ mSessions' = R.sessions
                     /\ mPending' = Spawn(mPending, R.tasks)
                     /\ mOpen' = mOpen \cup R.opened
                     /\ mDisk' = RunActivity(R.disk, R.tasks, clock)
                     /\ mHist' = IF R.err THEN [mHist EXCEPT ![n] = "failed"]
                                 ELSE IF R.inserted
                                 THEN [mHist EXCEPT ![n] = Inserted(mHist[n])]
                                 ELSE mHist
                ELSE /\ mSessions' = ManagerPut(R.sessions, st.s)
                     /\ mPending' = Spawn(mPending, R.tasks \cup st.tasks)
                     /\ mOpen' = mOpen \cup st.opened
                     /\ mDisk' = RunActivity(R.disk, R.tasks \cup st.tasks, clock)
                     /\ mHist' = IF R.inserted
                                 THEN [mHist EXCEPT ![n] = Inserted(mHist[n])]
                                 ELSE mHist
             /\ mCreate' = [name |-> n, err |-> CreateClientErr(R, sess, st)]
    /\ Cardinality(mPending') <= MaxPending
    /\ UNCHANGED <<mPid, mAlive, mCall, mConfig, clock, dVars, sVars, eVars,
                   kCfg, kKind, hVars>>

\* SessionAwareClient.Close on the handle CreateClient returned for n: the
\* wrapped client, which is the session's client, is closed unless the
\* session's type is Persistent
SessionAwareClose(n) ==
    /\ mCreate = [name |-> n, err |-> ""]
    /\ \E s \in ManagerLookup(mSessions, n) :
         /\ s.client # Nil
         /\ mOpen' = IF DetectSessionType(ServerConfig(n)) = "persistent"
                     THEN mOpen
                     ELSE mOpen \ {s.client}
    /\ UNCHANGED <<mSessions, mDisk, mPending, mPid, mAlive, mCall, mHist,
                   mConfig, clock, dVars, sVars, eVars, kVars, hVars>>

\* Manager.StopSession(n)
ManagerStopSession(n) ==
    LET ex == ManagerLookup(mSessions, n)
    IN  /\ ex # {}
        /\ mSessions' = ManagerDelete(mSessions, n)
        /\ mPending' = Spawn(mPending, UNION {Stop(s).tasks : s \in ex})
        /\ Cardinality(mPending') <= MaxPending
        /\ mOpen' = mOpen \ UNION {Stop(s).closed : s \in ex}
        /\ mDisk' = RemoveSessionFile(mDisk, n)
        /\ mHist' = [mHist EXCEPT ![n] = "stopped"]
        /\ UNCHANGED <<mPid, mAlive, mCall, mConfig, clock, dVars, sVars, eVars, kVars, hVars>>

\* the session status command: GetSessionByName, then HealthCheck when Active
SessionStatus(n) ==
    /\ \E s \in ManagerLookup(mSessions, n), listOk \in BOOLEAN :
         LET hc == HealthCheck(s, mAlive, listOk, clock)
         IN  /\ s.status = "active"
             /\ mSessions' = ManagerPut(mSessions, hc.s)
             /\ mPending' = Spawn(mPending, hc.tasks)
             /\ mDisk' = RunActivity(mDisk, hc.tasks, clock)
    /\ Cardinality(mPending') <= MaxPending
    /\ UNCHANGED <<mOpen, mPid, mAlive, mCall, mHist, mConfig, clock,
                   dVars, sVars, eVars, kVars, hVars>>

\* Manager.cleanupDeadSessions: bad are the sessions whose ListTools probe
\* fails.  A session is dropped when it is expired or its health check fails;
\* session.Stop() is called on what the health check left.
CleanupCheck(s, bad) ==
    IF IsExpired(s, GetSessionTimeout(ServerConfig(s.name)), clock)
    THEN [s |-> s, err |-> TRUE, tasks |-> {}]
    ELSE IF s.status = "active"
    THEN HealthCheck(s, mAlive, s.name \notin bad, clock)
    ELSE [s |-> s, err |-> FALSE, tasks |-> {}]

ManagerCleanupDeadSessions ==
    /\ mSessions # {}
    /\ \E bad \in SUBSET {s.name : s \in mSessions} :
         LET toDelete == {s \in mSessions : CleanupCheck(s, bad).err}
             kept == mSessions \ toDelete
             tasks == UNION {CleanupCheck(s, bad).tasks : s \in mSessions}
         IN  /\ mSessions' = {CleanupCheck(s, bad).s : s \in kept}
             /\ mPending' = Spawn(mPending, tasks
                   \cup UNION {Stop(CleanupCheck(s, bad).s).tasks : s \in toDelete})
             /\ mOpen' = mOpen
                   \ UNION {Stop(CleanupCheck(s, bad).s).closed : s \in toDelete}
             /\ mDisk' = [f \in FileNames |->
                            IF \E s \in toDelete : f = sessionFilename(s.name)
                            THEN NoFile ELSE RunActivity(mDisk, tasks, clock)[f]]
             /\ mHist' = [n \in ManagerNames |->
                            IF \E s \in toDelete : s.name = n THEN "stopped"
                            ELSE mHist[n]]
    /\ Cardinality(mPending') <= MaxPending
    /\ UNCHANGED <<mPid, mAlive, mCall, mConfig, clock, dVars, sVars, eVars, kVars, hVars>>

\* PersistentSession.Restart: Stop, then Start
Restart(s, ok, c, now, pid, alive) ==
    LET st == Start(Stop(s).s, ok, c, now, pid, alive)
    IN  [s |-> st.s, err |-> st.err, tasks |-> Stop(s).tasks \cup st.tasks,
         opened |-> st.opened, closed |-> Stop(s).closed]

\* SessionAwareClient.CallTool on the client CreateClient returned for n.
\* callOk: the outcome of c.client.CallTool; listOk: of the health check's
\* ListTools; ok: of the client factory in Restart; retryOk: of the second
\* CallTool.  forwards counts the tools/call requests sent to MCP servers.
SessionAwareCallTool(n) ==
    /\ \E s \in ManagerLookup(mSessions, n),
          callOk, listOk, ok, retryOk \in BOOLEAN :
         LET s1 == [s EXCEPT !.lastActivity = clock]
             hc == HealthCheck(s1, mAlive, listOk, clock)
             c == Lowest(FreeManagerClients(mSessions \ {s}, mOpen \ {s.client}))
             rs == Restart(hc.s, ok, c, clock, mPid, mAlive)
             act == {ActivityTask(s.sessionID)}
             done(t, tasks, opened, closed, k, o) ==
                 /\ mSessions' = ManagerPut(mSessions, t)
                 /\ mPending' = Spawn(mPending, act \cup tasks)
                 /\ mDisk' = RunActivity(mDisk, act \cup tasks, clock)
                 /\ mOpen' = (mOpen \ closed) \cup opened
                 /\ mCall' = [name |-> n, forwards |-> k, out |-> o]
         IN  /\ s.client # Nil
             /\ IF callOk THEN done(s1, {}, {}, {}, 1, "ok")
                ELSE IF DetectSessionType(ServerConfig(n)) # "persistent"
                THEN done(s1, {}, {}, {}, 1, "error")
                ELSE IF ~hc.err
                THEN done(hc.s, hc.tasks, {}, {}, 1, "error")
                ELSE IF rs.err
                THEN done(rs.s, hc.tasks \cup rs.tasks, rs.opened, rs.closed,
                          1, "restart_failed")
                ELSE IF rs.s.client = Nil
                THEN done(rs.s, hc.tasks \cup rs.tasks, rs.opened, rs.closed,
                          1, "error")
                ELSE done(rs.s, hc.tasks \cup rs.tasks, rs.opened, rs.closed,
                          2, IF retryOk THEN "ok" ELSE "error")
    /\ Cardinality(mPending') <= MaxPending
    /\ UNCHANGED <<mPid, mAlive, mHist, mConfig, clock, dVars, sVars, eVars, kVars, hVars>>

\* a goroutine spawned by saveToStoreAsyncWithInfo runs
AsyncRun(g) ==
    /\ g \in mPending
    /\ mPending' = mPending \ {g}
    /\ mDisk' = SaveSession(mDisk, g.info)
    /\ UNCHANGED <<mSessions, mOpen, mPid, mAlive, mCall, mHist, mConfig, clock,
                   dVars, sVars, eVars, kVars, hVars>>

\* Manager.loadSessions: the file of every invalid session is deleted by id
loadSessions(disk, alive) ==
    [f \in FileNames |->
        IF \E i \in ListSessions(disk) :
              ~ValidateSession(i, alive) /\ f = sessionFilename(i.SessionID)
        THEN NoFile ELSE disk[f]]

\* The CLI is run again: a new process p with the same sessions directory
\* calls NewManager.  The process that ran before has exited (its goroutines
\* are gone with it) or is still running.
NewManager(p) ==
    /\ p \notin mAlive
    /\ \E exited \in BOOLEAN :
         /\ mAlive' = (IF exited THEN mAlive \ {mPid} ELSE mAlive) \cup {p}
         /\ mPending' = IF exited THEN {} ELSE mPending
         /\ mDisk' = loadSessions(mDisk, mAlive')
         /\ mHist' = [n \in ManagerNames |->
                        IF exited /\ mDisk'[sessionFilename(n)] # NoFile
                        THEN "on_disk" ELSE "none"]
    /\ mPid' = p
    /\ mSessions' = {}
    /\ mOpen' = {}
    /\ mCall' = [name |-> "", forwards |-> 0, out |-> "none"]
    /\ UNCHANGED <<clock, dVars, sVars, eVars, kVars, hVars>>

\* a CLI process that ran before exits
ProcessExit(q) ==
    /\ q \in mAlive \ {mPid}
    /\ mAlive' = mAlive \ {q}
    /\ UNCHANGED <<mSessions, mDisk, mPending, mOpen, mPid, mCall, mHist,
                   mConfig, clock, dVars, sVars, eVars, kVars, hVars>>

InitManager ==
    /\ mSessions = {}
    /\ mDisk = [f \in FileNames |-> NoFile]
    /\ mPending = {}
    /\ mOpen = {}
    /\ mPid = 1
    /\ mAlive = {1}
    /\ mCall = [name |-> "", forwards |-> 0, out |-> "none"]
    /\ mHist = [n \in ManagerNames |-> "none"]
    /\ mConfig = "npx"

(***************************************************************************)
(* The stdio transport: one StdioClient and its child process.             *)
(* A request is told apart by its number; the JSON-RPC id the code puts    *)
(* in it is 1 for tools/list and 2 for tools/call.                         *)
(***************************************************************************)
ListToolsId == 1
CallToolId == 2

IdleCaller == [pc |-> "idle", req |-> 0, kind |-> "none", seq |-> 0]

\* c.mutex.Lock(); closed check; write and flush of the request; the reader
\* goroutine is started; the caller then waits in the select
SendRequest(c, id) ==
    /\ sCallers[c].pc = "idle"
    /\ sMutex = Nil
    /\ sNextReq <= MaxReq
    /\ IF sClosed
       THEN /\ sCallers' = [sCallers EXCEPT ![c] =
                   [pc |-> "done", req |-> 0, kind |-> "client_closed", seq |-> 0]]
            /\ UNCHANGED <<sMutex, sWire, sReaders, sNextReq, sSent>>
       ELSE /\ sMutex' = c
            /\ sWire' = Append(sWire, [seq |-> sNextReq, id |-> id])
            /\ sSent' = Append(sSent, id)
            /\ sReaders' = sReaders \cup {sNextReq}
            /\ sCallers' = [sCallers EXCEPT ![c] = [IdleCaller EXCEPT
                   !.pc = "wait", !.req = sNextReq]]
            /\ sNextReq' = sNextReq + 1
    /\ UNCHANGED <<sClosed, sOut, sTimedOut, clock, dVars, mVars, eVars, kVars, hVars>>

\* the child answers the oldest request it has read
ChildRespond ==
    /\ sWire # <<>>
    /\ sOut' = Append(sOut, Head(sWire))
    /\ sWire' = Tail(sWire)
    /\ UNCHANGED <<sMutex, sClosed, sCallers, sReaders, sNextReq, sTimedOut,
                   sSent, clock, dVars, mVars, eVars, kVars, hVars>>

\* One of the goroutines blocked in c.reader.ReadBytes('\n') gets the next
\* line: the goroutines share the bufio.Reader with no lock between them.
\* The line goes to the channel of the request the goroutine was started
\* for; when that request's caller has left the select, the line is dropped.
ReaderRead(r) ==
    /\ r \in sReaders
    /\ sOut # <<>>
    /\ sOut' = Tail(sOut)
    /\ sReaders' = sReaders \ {r}
    /\ IF \E c \in Callers : sCallers[c].pc = "wait" /\ sCallers[c].req = r
       THEN /\ sCallers' = [c \in Callers |->
                   IF sCallers[c].pc = "wait" /\ sCallers[c].req = r
                   THEN [sCallers[c] EXCEPT !.pc = "done", !.kind = "response",
                                            !.seq = Head(sOut).seq]
                   ELSE sCallers[c]]
            /\ sMutex' = Nil
       ELSE UNCHANGED <<sCallers, sMutex>>
    /\ UNCHANGED <<sClosed, sWire, sNextReq, sTimedOut, sSent, clock, dVars, mVars, eVars, kVars, hVars>>

\* case <-ctx.Done(): the caller returns "request timeout"; its reader
\* goroutine stays blocked in ReadBytes
RequestTimeout(c) ==
    /\ sCallers[c].pc = "wait"
    /\ sCallers' = [sCallers EXCEPT ![c].pc = "done", ![c].kind = "timeout"]
    /\ sMutex' = Nil
    /\ sTimedOut' = sTimedOut \cup {sCallers[c].req}
    /\ UNCHANGED <<sClosed, sWire, sOut, sReaders, sNextReq, sSent, clock, dVars, mVars,
                   eVars, kVars, hVars>>

\* the caller has its result and may send again
CallerReturn(c) ==
    /\ sCallers[c].pc = "done"
    /\ sCallers' = [sCallers EXCEPT ![c] = IdleCaller]
    /\ UNCHANGED <<sMutex, sClosed, sWire, sOut, sReaders, sNextReq, sTimedOut,
                   sSent, clock, dVars, mVars, eVars, kVars, hVars>>

\* StdioClient.Close: under the mutex; the pipes are closed and the child
\* is killed, so every blocked ReadBytes returns an error
StdioClose ==
    /\ sMutex = Nil
    /\ ~sClosed
    /\ sClosed' = TRUE
    /\ sWire' = <<>>
    /\ sOut' = <<>>
    /\ sReaders' = {}
    /\ UNCHANGED <<sMutex, sCallers, sNextReq, sTimedOut, sSent, clock, dVars, mVars,
                   eVars, kVars, hVars>>

InitStdio ==
    /\ sMutex = Nil
    /\ sClosed = FALSE
    /\ sCallers = [c \in Callers |-> IdleCaller]
    /\ sWire = <<>>
    /\ sOut = <<>>
    /\ sReaders = {}
    /\ sNextReq = 1
    /\ sSent = <<>>
    /\ sTimedOut = {}

(***************************************************************************)
(* The control channel of the daemon: each handler runs a registry         *)
(* operation and writes its reply.  dReply keeps the reply written last:   *)
(* the request, the statuses the registry held for the name, the error,    *)
(* the bring-up goroutines the request started, and the transports it      *)
(* closed between sessionMutex.Lock() and Unlock(); for DELETE /sessions    *)
(* also the transports the records held; for a tick of the supervisor the  *)
(* time, the names that were Active and those that no longer answered.     *)
(***************************************************************************)
\* the clients that were open in cs and are no longer open in cs2
Closed(cs, cs2) ==
    {c \in ClientSlots : cs[c].state = "open" /\ cs2[c].state # "open"}

\* POST /sessions/{server}/start
handleStartSession(n) ==
    /\ StartSession(n)
    /\ dReply' = [NoReply EXCEPT !.op = "start", !.name = n,
                     !.was = StatusOf(dSessions, n),
                     !.err = StartSessionErr(dSessions, n),
                     !.spawned = BagCardinality(bg') - BagCardinality(bg)]

\* DELETE /sessions/{server}.  A name the registry no longer holds because
\* the request before this one stopped it is noted as "stopped".
handleStopSession(n) ==
    /\ StopSession(n)
    /\ dReply' = [NoReply EXCEPT !.op = "stop", !.name = n,
                     !.was = IF Lookup(dSessions, n) = {} /\ dReply.op = "stop"
                                   /\ dReply.name = n /\ dReply.err = ""
                             THEN {"stopped"} ELSE StatusOf(dSessions, n),
                     !.err = StopSessionErr(dSessions, n),
                     !.underLock = Closed(dClients, dClients')]

\* DELETE /sessions: the reply is always "All sessions stopped"
handleSessionsList ==
    /\ DeleteAll
    /\ dReply' = [NoReply EXCEPT !.op = "delete_all",
                     !.was = {r.Status : r \in dSessions},
                     !.held = ClientsOf(dSessions),
                     !.underLock = Closed(dClients, dClients')]

\* the names of the Active records
ActiveNames(sessions) ==
    {r.ServerName : r \in {x \in sessions : x.Status = "active"}}

\* the names of the Active records whose MCP server no longer answers
UnhealthyNames(sessions, cs) ==
    {r.ServerName : r \in {x \in sessions : x.Status = "active"
                                             /\ cs[x.Client].state # "open"}}

\* one tick of cleanupRoutine: case <-ticker.C: d.cleanupIdleSessions()
cleanupRoutine ==
    /\ CleanupIdleSessions
    /\ dReply' = [NoReply EXCEPT !.op = "tick", !.at = clock,
                     !.active = ActiveNames(dSessions),
                     !.unhealthy = UnhealthyNames(dSessions, dClients)]

\* the MCP server process of client c exits on its own
ChildExit(c) ==
    /\ dClients[c].state = "open"
    /\ ~dClients[c].busy
    /\ dClients' = Collect([dClients EXCEPT ![c].state = "dead"],
                           dSessions, bg, handlers)
    /\ UNCHANGED <<dSessions, bg, handlers, hist, dReply, dConfig, clock,
                   mVars, sVars, eVars, kVars, hVars>>

\* time passes while the supervisor runs
SupervisorClockTick ==
    /\ clock < MaxSupervisorTime
    /\ clock' = clock + 1
    /\ UNCHANGED <<dVars, mVars, sVars, eVars, kVars, hVars>>

(***************************************************************************)
(* DaemonManager.Start: processes running `daemon start --foreground`.     *)
(* A process is named by its pid; "idle" is a pid no process has.          *)
(***************************************************************************)
Starters == 1..NumStarters

\* isProcessAlive(pid)
DaemonProcessAlive(procs, pid) == pid # Nil /\ procs[pid] # "idle"

\* isDaemonRunning: the pid file names a process that is alive
isDaemonRunning(pidFile, procs) == DaemonProcessAlive(procs, pidFile)

\* the daemons that serve the control endpoint on a listener of their own
Owners == {s \in Starters : eProcs[s] = "serving"}

\* DaemonManager.Start up to the call of startForeground: "daemon is already
\* running" when isDaemonRunning, which removes a stale pid file
DaemonStart(s) ==
    /\ eProcs[s] = "idle"
    /\ IF isDaemonRunning(ePidFile, eProcs)
       THEN UNCHANGED <<ePidFile, eProcs, eLoop>>
       ELSE /\ ePidFile' = Nil
            /\ eProcs' = [eProcs EXCEPT ![s] = "checked"]
            /\ eLoop' = [eLoop EXCEPT ![s] = "none"]
    /\ UNCHANGED <<eKind, ePath, eTick, dVars, mVars, sVars, kVars, hVars, clock>>

\* startForeground: writePIDFile()
writePIDFile(s) ==
    /\ eProcs[s] = "checked"
    /\ ePidFile' = s
    /\ eProcs' = [eProcs EXCEPT ![s] = "written"]
    /\ UNCHANGED <<eKind, ePath, eLoop, eTick, dVars, mVars, sVars, kVars, hVars,
                   clock>>

\* startUnixSocket: os.Remove(d.endpoint), whoever made the socket file
startUnixSocketRemove(s) ==
    /\ eKind = "unix"
    /\ eProcs[s] = "written"
    /\ ePath' = Nil
    /\ eProcs' = [eProcs EXCEPT ![s] = "removed"]
    /\ UNCHANGED <<eKind, ePidFile, eLoop, eTick, dVars, mVars, sVars, kVars,
                   hVars, clock>>

\* startUnixSocket: net.Listen("unix", d.endpoint) fails when the socket
\* file exists; startForeground then returns and its defer removes the pid
\* file, whatever pid it holds
startUnixSocketListen(s) ==
    /\ eProcs[s] = "removed"
    /\ IF ePath # Nil
       THEN /\ ePidFile' = Nil
            /\ eProcs' = [eProcs EXCEPT ![s] = "idle"]
            /\ UNCHANGED <<ePath, eLoop>>
       ELSE /\ ePath' = s
            /\ eProcs' = [eProcs EXCEPT ![s] = "serving"]
            /\ eLoop' = [eLoop EXCEPT ![s] = "waiting"]
            /\ UNCHANGED ePidFile
    /\ UNCHANGED <<eKind, eTick, dVars, mVars, sVars, kVars, hVars, clock>>

\* startHTTPServer: net.Listen("tcp", d.endpoint) fails while another
\* process listens on the address
startHTTPServer(s) ==
    /\ eKind = "tcp"
    /\ eProcs[s] = "written"
    /\ IF Owners # {}
       THEN /\ ePidFile' = Nil
            /\ eProcs' = [eProcs EXCEPT ![s] = "idle"]
            /\ UNCHANGED eLoop
       ELSE /\ eProcs' = [eProcs EXCEPT ![s] = "serving"]
            /\ eLoop' = [eLoop EXCEPT ![s] = "waiting"]
            /\ UNCHANGED ePidFile
    /\ UNCHANGED <<eKind, ePath, eTick, dVars, mVars, sVars, kVars, hVars, clock>>

\* d.shutdownChan is closed by Daemon.Stop alone, and Daemon.Stop is called
\* by waitForShutdown alone, after a receive from sigChan, a channel that
\* nothing sends on (signal.Notify is commented out)
shutdownChanClosed(s) == FALSE

\* the cases of the select in cleanupRoutine that can proceed
ReadyCases(s) ==
    {c \in {"tick", "shutdown"} :
        \/ c = "tick" /\ eTick[s]
        \/ c = "shutdown" /\ shutdownChanClosed(s)}

\* time.NewTicker(5 * time.Minute): the channel holds one tick at most
TickerFires(s) ==
    /\ eLoop[s] = "waiting"
    /\ ~eTick[s]
    /\ eTick' = [eTick EXCEPT ![s] = TRUE]
    /\ UNCHANGED <<eKind, ePidFile, ePath, eProcs, eLoop, dVars, mVars, sVars,
                   kVars, hVars, clock>>

\* one round of the loop of cleanupRoutine: select takes one of the cases
\* that can proceed; the tick calls cleanupIdleSessions, which finds no
\* Active record in a registry nobody has started a session in
cleanupRoutineSelect(s) ==
    /\ eLoop[s] = "waiting"
    /\ \E c \in ReadyCases(s) :
         IF c = "shutdown"
         THEN /\ eLoop' = [eLoop EXCEPT ![s] = "returned"]
              /\ UNCHANGED eTick
         ELSE /\ eTick' = [eTick EXCEPT ![s] = FALSE]
              /\ UNCHANGED eLoop
    /\ UNCHANGED <<eKind, ePidFile, ePath, eProcs, dVars, mVars, sVars, kVars,
                   hVars, clock>>

\* waitForShutdown receives no signal (signal.Notify is commented out): on
\* SIGTERM or SIGINT the Go runtime ends the process, no deferred call runs,
\* the goroutines end with it, and the pid file and socket file stay
DaemonKilled(s) ==
    /\ eProcs[s] = "serving"
    /\ eProcs' = [eProcs EXCEPT ![s] = "idle"]
    /\ eLoop' = [eLoop EXCEPT ![s] = "killed"]
    /\ eTick' = [eTick EXCEPT ![s] = FALSE]
    /\ UNCHANGED <<eKind, ePidFile, ePath, dVars, mVars, sVars, kVars, hVars, clock>>

InitEndpoint ==
    /\ ePidFile = Nil
    /\ ePath = Nil
    /\ eProcs = [s \in Starters |-> "idle"]
    /\ eLoop = [s \in Starters |-> "none"]
    /\ eTick = [s \in Starters |-> FALSE]

\* detectPlatform: linux and darwin get "127.0.0.1:8080", wsl a socket file
InitStart ==
    /\ InitDaemon /\ InitManager /\ InitStdio /\ InitEndpoint /\ NoDetect
    /\ mCreate = NoCreate
    /\ InitSession
    /\ dConfig = [MaxIdleTime |-> MaxIdleTime]
    /\ eKind \in {"tcp", "unix"}

\* the daemon is created with the configuration file's maxIdleTime or with
\* DefaultDaemonConfig()
InitDetect ==
    /\ InitDaemon /\ InitManager /\ InitStdio /\ InitEndpoint
    /\ dConfig = [MaxIdleTime |-> MaxIdleTime]
    /\ eKind = "tcp"
    /\ kCfg \in ServerConfigs
    /\ kKind = ""
    /\ mCreate = NoCreate
    /\ InitSession

InitSupervisor ==
    /\ InitDaemon /\ InitManager /\ InitStdio /\ InitEndpoint /\ NoDetect
    /\ mCreate = NoCreate
    /\ InitSession
    /\ eKind = "tcp"
    /\ dConfig \in {[MaxIdleTime |-> MaxIdleTime],
                    [MaxIdleTime |-> DefaultMaxIdleTime]}

(***************************************************************************)
(* Specifications                                                          *)
(***************************************************************************)
Init ==
    /\ InitDaemon /\ InitManager /\ InitStdio /\ InitEndpoint /\ NoDetect
    /\ mCreate = NoCreate
    /\ InitSession
    /\ dConfig = [MaxIdleTime |-> MaxIdleTime]
    /\ eKind = "tcp"

NextDaemon ==
    \/ \E n \in Names : StartSession(n) /\ UNCHANGED dReply
    \/ \E t \in BagToSet(bg) : BgConnect(t)
    \/ \E t \in BagToSet(bg) : BgPublish(t)
    \/ \E n \in Names : StopSession(n) /\ UNCHANGED dReply
    \/ DeleteAll /\ UNCHANGED dReply
    \/ \E h \in Handlers, n \in Names : CallToolLookup(h, n)
    \/ \E h \in Handlers : CallToolDeref(h)
    \/ \E h \in Handlers : CallToolSend(h)
    \/ \E h \in Handlers : CallToolReturn(h)
    \/ \E h \in Handlers : HandlerReset(h)
    \/ CleanupIdleSessions /\ UNCHANGED dReply
    \/ ClockTick

NextManager ==
    \/ \E n \in BrowserNames : CreateClient(n)
    \/ \E n \in BrowserNames : ManagerStopSession(n)
    \/ \E n \in BrowserNames : SessionStatus(n)
    \/ ManagerCleanupDeadSessions
    \/ \E n \in BrowserNames : SessionAwareCallTool(n)
    \/ \E g \in mPending : AsyncRun(g)
    \/ \E p \in Pids : NewManager(p) /\ UNCHANGED mConfig
    \/ \E q \in Pids : ProcessExit(q)
    \/ ClockTick

NextStdio ==
    \/ \E c \in Callers, id \in {ListToolsId, CallToolId} : SendRequest(c, id)
    \/ ChildRespond
    \/ \E r \in sReaders : ReaderRead(r)
    \/ \E c \in Callers : RequestTimeout(c)
    \/ \E c \in Callers : CallerReturn(c)
    \/ StdioClose

\* runs of the CLI, one after another or side by side, over one sessions
\* directory, the configuration file being edited between them
NextRecovery ==
    \/ \E n \in ManagerNames : CreateClient(n)
    \/ \E n \in ManagerNames : SessionAwareClose(n)
    \/ \E g \in mPending : AsyncRun(g)
    \/ \E p \in Pids, cmd \in Commands : NewManager(p) /\ mConfig' = cmd

\* tool requests on the control channel, sessions being started and stopped
NextTools ==
    \/ \E n \in Names : StartSession(n) /\ UNCHANGED dReply
    \/ \E t \in BagToSet(bg) : BgConnect(t)
    \/ \E t \in BagToSet(bg) : BgPublish(t)
    \/ \E n \in Names : StopSession(n) /\ UNCHANGED dReply
    \/ \E h \in Handlers, n \in Names, a \in SUBSET ArgKeys :
          handleToolCall(h, n, a)
    \/ \E h \in Handlers : CallToolDeref(h)
    \/ \E h \in Handlers : CallToolSend(h)
    \/ \E h \in Handlers : CallToolReturn(h)
    \/ \E h \in Handlers, n \in Names : ListToolsLookup(h, n)
    \/ \E h \in Handlers : ListToolsFetch(h)
    \/ \E h \in Handlers : ListToolsStore(h)
    \/ \E h \in Handlers : HandlerReset(h)

\* `daemon start` run by several processes at once
NextStart ==
    \/ \E s \in Starters : DaemonStart(s)
    \/ \E s \in Starters : writePIDFile(s)
    \/ \E s \in Starters : startUnixSocketRemove(s)
    \/ \E s \in Starters : startUnixSocketListen(s)
    \/ \E s \in Starters : startHTTPServer(s)
    \/ \E s \in Starters : DaemonKilled(s)
    \/ \E s \in Starters : TickerFires(s)
    \/ \E s \in Starters : cleanupRoutineSelect(s)

\* DetectSessionType on one server configuration after the other
NextDetect == DetectSession \/ DetectNext

\* one session whose Start, Stop and HealthCheck are called concurrently
NextHealth ==
    \/ SessionStart
    \/ SessionStop
    \/ \E k \in HealthCheckers : HealthCheckBegin(k)
    \/ \E k \in HealthCheckers : HealthCheckList(k)
    \/ ClockTick

\* starts, stops and sweeps with the bring-up goroutines they leave running
NextBringUp ==
    \/ \E n \in Names : StartSession(n) /\ UNCHANGED dReply
    \/ \E t \in BagToSet(bg) : BgConnect(t)
    \/ \E t \in BagToSet(bg) : BgPublish(t)
    \/ \E n \in Names : StopSession(n) /\ UNCHANGED dReply
    \/ DeleteAll /\ UNCHANGED dReply

\* A goroutine that can run does run, and client.ListTools(ctx) returns
\* within the 30 seconds of its context: every step of a bring-up is taken.
\* Each goroutine is scheduled on its own, whatever the others do.
BgTasks ==
    [pc : {"connect", "publish"}, name : Names, client : ClientSlots \cup {Nil}]

FairBringUp ==
    \A t \in BgTasks :
        /\ WF_vars(t \in BagToSet(bg) /\ BgConnect(t))
        /\ WF_vars(t \in BagToSet(bg) /\ BgPublish(t))

\* the control channel, with no tool call in progress
NextControl ==
    \/ \E n \in Names : handleStartSession(n)
    \/ \E t \in BagToSet(bg) : BgConnect(t)
    \/ \E t \in BagToSet(bg) : BgPublish(t)
    \/ \E n \in Names : handleStopSession(n)
    \/ handleSessionsList

\* the supervisor loop over sessions that are started and left alone
NextSupervisor ==
    \/ \E n \in Names : handleStartSession(n)
    \/ \E t \in BagToSet(bg) : BgConnect(t)
    \/ \E t \in BagToSet(bg) : BgPublish(t)
    \/ \E c \in ClientSlots : ChildExit(c)
    \/ cleanupRoutine
    \/ SupervisorClockTick

SpecDaemon == Init /\ [][NextDaemon]_vars
SpecControl == Init /\ [][NextControl]_vars
SpecSupervisor == InitSupervisor /\ [][NextSupervisor]_vars
SpecManager == Init /\ [][NextManager]_vars
SpecStdio == Init /\ [][NextStdio]_vars
SpecRecovery == Init /\ [][NextRecovery]_vars
SpecStart == InitStart /\ [][NextStart]_vars
SpecTools == Init /\ [][NextTools]_vars
SpecDetect == InitDetect /\ [][NextDetect]_vars
SpecHealth == Init /\ [][NextHealth]_vars
SpecBringUp == Init /\ [][NextBringUp]_vars /\ FairBringUp

(***************************************************************************)
(* Properties                                                              *)
(***************************************************************************)

\* the manager's map holds at most one session per server name
ManagerOneSessionPerName ==
    \A n \in ManagerNames : Cardinality(ManagerLookup(mSessions, n)) <= 1

\* no file is ever named after a session id: SaveSession names the file
\* after the server, so the goroutine of UpdateActivity finds nothing
NoSessionFileById ==
    \A n \in ManagerNames : mDisk[sessionFilename(GenerateSessionID(n))] = NoFile

\* a daemon record in state Active has a client and a positive start time
DaemonActiveHasClient ==
    \A r \in dSessions : r.Status = "active" => (r.Client # Nil /\ r.StartTime > 0)

\* C1: at every instant the daemon's registry holds at most one session
\* record for any server name.
C1_OneRecordPerName ==
    \A n \in Names : Cardinality(Lookup(dSessions, n)) <= 1

\* a start has replaced the record the registry held for the name
C1_Replaced ==
    \E n \in Names : hist[n] = "restarted" /\ Cardinality(Lookup(dSessions, n)) = 1

\* C3: a tool call that runs concurrently with a stop of its session either
\* completes, or fails because the session is not there or not active; it is
\* never executed against a nil or closed transport.
C3_CallStopRace ==
    \A h \in Handlers :
        handlers[h].pc = "done" =>
            handlers[h].out \in {"ok", "call_failed", "not_found"}
                \cup {NotActive(st) : st \in {"starting", "error", "stopping"}}

\* C8: after Start(N) and then Stop(N) the registry holds no record for N.
C8_StartStopLeavesNoRecord ==
    \A n \in Names : hist[n] = "started_stopped" => Lookup(dSessions, n) = {}

\* C2: every session record in state Active, however it was created, has a
\* transport handle and a strictly positive start time.
C2_ActiveHasTransport ==
    \A s \in mSessions : s.status = "active" => (s.client # Nil /\ s.startTime > 0)

\* C10: every session record in a state other than Active has no transport
\* handle.
C10_NotActiveHasNoTransport ==
    \A s \in mSessions : s.status # "active" => s.client = Nil

\* C4: one tool-call invocation is forwarded to the MCP server at most once.
C4_ForwardedAtMostOnce == mCall.forwards <= 1

\* C9: once a session has been stopped and removed from the manager's map,
\* and every goroutine of the operation has run, no metadata file of the
\* session is on disk.
C9_StoppedSessionHasNoFile ==
    \A n \in ManagerNames :
        (mHist[n] = "stopped" /\ mPending = {}) =>
            mDisk[sessionFilename(n)] = NoFile

\* C5: the response to a request that timed out is never returned as the
\* result of a later request.
C5_NoStaleResponse ==
    \A c \in Callers :
        (sCallers[c].pc = "done" /\ sCallers[c].kind = "response") =>
            ~(sCallers[c].seq \in sTimedOut /\ sCallers[c].seq # sCallers[c].req)

\* C6: at most one request of a stdio client is in flight: at most one
\* request is unanswered or unread, and at most one goroutine reads from the
\* child.
C6_OneRequestInFlight ==
    /\ Len(sWire) + Len(sOut) <= 1
    /\ Cardinality(sReaders) <= 1

\* C7: every caller of a stdio client receives the response to its own
\* request.
C7_ResponsesPaired ==
    \A c \in Callers :
        (sCallers[c].pc = "done" /\ sCallers[c].kind = "response") =>
            sCallers[c].seq = sCallers[c].req

\* C11: a start request for a name whose record is in state Starting is
\* answered with the error "is already starting" and starts no bring-up
\* goroutine.
C11_StartingRejected ==
    (dReply.op = "start" /\ dReply.was = {"starting"}) =>
        (dReply.err = "is already starting" /\ dReply.spawned = 0)

\* a start request was refused while the bring-up of the name was running
C11_RejectedWhileStarting ==
    /\ dReply.op = "start" /\ dReply.was = {"starting"}
    /\ dReply.err = "is already starting"
    /\ \E t \in BagToSet(bg) : t.name = dReply.name
    /\ StatusOf(dSessions, dReply.name) = {"starting"}

\* C12: a tool call that finds its session in state Starting is not refused
\* for that reason: it waits for the outcome of the start.
C12_CallAwaitsStart ==
    \A h \in Handlers :
        handlers[h].pc = "done" => handlers[h].out # NotActive("starting")

\* C13: a start request for a name whose record is Active is answered with
\* success.
C13_StartOnActiveSucceeds ==
    (dReply.op = "start" /\ dReply.was = {"active"}) => dReply.err = ""

\* C14: a stop request for a session that is Inactive or Stopped, such as
\* the repetition of a stop that succeeded, is answered with success.
C14_StopOnStoppedSucceeds ==
    (dReply.op = "stop" /\ dReply.was \in {{"inactive"}, {"stopped"}}) =>
        dReply.err = ""

\* C15: a tool call refused because its session is in state Error returns
\* the error message the session record stores.
C15_ErrorSessionReturnsStoredMessage ==
    \A h \in Handlers : \A r \in Lookup(dSessions, handlers[h].name) :
        (handlers[h].pc = "done" /\ r.Status = "error"
            /\ handlers[h].out = NotActive("error")) =>
                handlers[h].out = r.Error

C17_NoIOUnderLock == dReply.underLock = {}

\* C18: after a tick of the supervisor no session is left that was Active at
\* the tick and had then been idle for longer than its own idle timeout.
C18_IdlePastOwnTimeoutStopped ==
    dReply.op = "tick" =>
        \A r \in dSessions :
            (r.ServerName \in dReply.active
                /\ GetSessionTimeout(ServerConfig(r.ServerName)) # 0) =>
                    ~(dReply.at - r.LastUsed
                          > GetSessionTimeout(ServerConfig(r.ServerName)))

\* C19: with an idle timeout of 0, in the daemon's configuration and in the
\* server's, a session that was Active at a tick of the supervisor is still
\* in the registry after it.
C19_ZeroTimeoutNeverReaped ==
    (dReply.op = "tick" /\ dConfig.MaxIdleTime = 0) =>
        \A n \in dReply.active :
            ServerConfig(n).timeout = 0 => Lookup(dSessions, n) # {}

\* C20: after a tick of the supervisor the registry holds no persistent
\* session that was Active at the tick with an MCP server that no longer
\* answered.
C20_UnhealthyPersistentRemoved ==
    dReply.op = "tick" =>
        \A n \in dReply.unhealthy :
            DetectSessionType(ServerConfig(n)) = "persistent" =>
                Lookup(dSessions, n) = {}

\* C21: a session that was Active with an exited child process when a tick
\* of the supervisor began is Stopped or gone from the registry when the
\* tick has ended.
C21_DeadChildStoppedByTick ==
    dReply.op = "tick" =>
        \A n \in dReply.unhealthy :
            \A r \in Lookup(dSessions, n) : r.Status = "stopped"

\* C22: when a process that began with the metadata file of a stdio session
\* left on disk by an exited process asks for that session, the record it
\* gets is a fresh one: an Active record has a transport this process
\* opened, and it was started by this process.
C22_RecoveredSessionIsFresh ==
    \A s \in mSessions :
        (mHist[s.name] = "recovered" /\ s.status = "active") =>
            /\ s.client \in mOpen
            /\ s.pid = mPid

\* C24: a recovery pass (loadSessions, run by NewManager, whose registry is
\* empty) leaves no orphan on disk: every metadata file that is still there
\* after the pass is one that ValidateSession accepts.
C24_RecoveryPassRemovesOrphans ==
    [][(\E p \in Pids : NewManager(p)) =>
          \A f \in FileNames :
              mDisk'[f] # NoFile => ValidateSession(mDisk'[f], mAlive')]_vars

\* C23: a request for a session whose record on disk has a configuration
\* that does not match the incoming one leaves no such record behind: the
\* file is gone or holds the incoming configuration.
C23_MismatchedRecordDeleted ==
    [][\A n \in ManagerNames :
          (ConfigMismatch(n) /\ CreateClient(n)) =>
              \/ mDisk'[sessionFilename(n)] = NoFile
              \/ mDisk'[sessionFilename(n)].Config = mConfig]_vars

\* C25: every metadata file on disk is the file of a session that has been
\* Active: it holds a start time, which only createNewSession sets, at the
\* moment it makes the session Active.
C25_FileOnlyForOnceActive ==
    \A f \in FileNames : mDisk[f] # NoFile => mDisk[f].StartTime > 0

\* C26: the metadata of a session of the map, saved with SaveSession and
\* loaded back with LoadSession by its session id, is the metadata saved, as
\* far as session id, server name, pid and configuration go.
C26_SaveLoadRoundTrip ==
    \A s \in mSessions :
        LET info == buildSessionInfo(s)
            back == LoadSession(SaveSession(mDisk, info), info.SessionID)
        IN  /\ back.SessionID = info.SessionID
            /\ back.Name = info.Name
            /\ back.PID = info.PID
            /\ back.Config = info.Config

\* C27: at most one daemon serves a control endpoint at any time.
C27_OneDaemonPerEndpoint == Cardinality(Owners) <= 1

\* C28: a tool call whose arguments violate the tool's input schema writes
\* nothing to the transport: no handler waits for the answer to a request
\* it has sent with such arguments.
C28_InvalidArgsNotSent ==
    \A h \in Handlers :
        handlers[h].pc = "wait" =>
            ValidateArguments(ToolDescriptor, handlers[h].args) = ""

\* C29: a list-tools request that begins after the tool list of its session
\* has been fetched sends nothing on the transport.
C29_ListedServedFromCache ==
    \A h \in Handlers :
        handlers[h].pc \in {"list_fetch", "list_store"} => ~handlers[h].late

\* a list-tools request was answered from the cache of a session whose tool
\* list had been fetched on the session's transport
C29_CacheHit ==
    \E h \in Handlers :
        /\ handlers[h].pc = "done" /\ handlers[h].out = "cached"
        /\ \E r \in Lookup(dSessions, handlers[h].name) :
              r.Status = "active" /\ dClients[r.Client].listed

\* C30: the JSON-RPC ids of the requests written to a transport, in the
\* order they were written, are strictly increasing.
C30_IdsStrictlyIncreasing ==
    \A i, j \in 1..Len(sSent) : i < j => sSent[i] < sSent[j]

\* C31: a session type given explicitly in the server's configuration is the
\* session type DetectSessionType returns, whatever the transport and the
\* command are.
C31_OverrideWins ==
    (kKind # "" /\ kCfg.Session.Type \in {"persistent", "stateless", "hybrid"})
        => kKind = kCfg.Session.Type

\* C32: CreateClient for a hybrid session never returns the error of a
\* failed start: the caller of the tool call gets a client.
C32_HybridStartFailureNotSurfaced ==
    (mCreate.name \in ManagerNames
     /\ DetectSessionType(ServerConfig(mCreate.name)) = "hybrid")
        => mCreate.err # "failed to start session"

C34_OneBringUpPerName ==
    \A n \in Names :
        BagCardinality([t \in {u \in BagToSet(bg) : u.name = n} |-> bg[t]]) <= 1

\* C35: a transport a bring-up has opened is, at some later moment, the
\* transport of a record of the registry or closed.
C35_OpenedTransportOwnedOrClosed ==
    \A c \in ClientSlots :
        (dClients[c].state = "open")
            ~> (c \in ClientsOf(dSessions) \/ dClients[c].state # "open")

\* C36: a HealthCheck that stores its outcome on a session in state Stopped
\* leaves the session in state Stopped.
C36_StoppedIsTerminal ==
    [][\A k \in HealthCheckers :
          (HealthCheckList(k) /\ hSession.status = "stopped")
              => hSession'.status = "stopped"]_vars

\* C37: the client of an Active session of type persistent or hybrid is
\* open.
C37_ActiveTransportOpen ==
    \A s \in mSessions :
        (/\ s.status = "active" /\ s.client # Nil
         /\ DetectSessionType(ServerConfig(s.name)) \in {"persistent", "hybrid"})
            => s.client \in mOpen

\* C38: after the reply to a stop request that found the record of its
\* session in state Error, the registry holds no record of that session.
C38_StopRemovesErrorRecord ==
    (dReply.op = "stop" /\ "error" \in dReply.was)
        => Lookup(dSessions, dReply.name) = {}

\* C39: when a daemon has shut down, its supervisor loop has returned on the
\* shutdown signal.
C39_LoopReturnsOnShutdown ==
    \A s \in Starters :
        (eProcs[s] = "idle" /\ eLoop[s] # "none") => eLoop[s] = "returned"

\* C40: a daemon that a signal has ended has left no pid file with its pid.
C40_SignalledDaemonRemovesPidFile ==
    \A s \in Starters : eLoop[s] = "killed" => ePidFile # s

====
